---- MODULE Spec2Model ----
(***************************************************************************)
(* Linear-sweep x86 disassembler: src/disassemble.py driven by the opcode  *)
(* registry of src/instruction_data.py.                                    *)
(*                                                                         *)
(* Conventions of the model                                                 *)
(*  - a byte buffer is a sequence of naturals in 0..255; Python's 0-based  *)
(*    slices data[a:b] are Slice(data, a, b) and clip at the end of the    *)
(*    buffer exactly as Python does; data[i] on a missing byte raises.     *)
(*  - a raised exception is a result record with raised = TRUE.            *)
(*  - rendered text (f-strings) is a sequence of string pieces; every hex  *)
(*    or decimal digit and every sign is a piece of its own.               *)
(*  - an unsigned integer read by int.from_bytes(.., signed=False) is kept *)
(*    as its canonical base-256 little-endian numeral (no high zero        *)
(*    bytes), because a 4-byte unsigned value does not fit the checker's   *)
(*    integers; signed reads are ordinary integers.                        *)
(*  - Python's None is the string "None", the empty text or the empty      *)
(*    function, according to the field.                                    *)
(***************************************************************************)
EXTENDS Integers, Sequences, FiniteSets, TLC

VARIABLES data, counter, output_list, labels, consumed, pc

vars == <<data, counter, output_list, labels, consumed, pc>>

(***************************************************************************)
(* Bounds of the model                                                     *)
(***************************************************************************)
MaxLen == 3

MaxTail == 4

MaxOperand == 4

(***************************************************************************)
(* Python primitives                                                       *)
(***************************************************************************)
Min(a, b) == IF a < b THEN a ELSE b

Abs(n) == IF n < 0 THEN 0 - n ELSE n

\* data[a:b] for 0 <= a, 0 <= b
Slice(s, a, b) == SubSeq(s, a + 1, Min(b, Len(s)))

\* data[a:]
SliceFrom(s, a) == SubSeq(s, a + 1, Len(s))

\* "i is a valid index of data", i >= 0: data[i] raises IndexError otherwise
HasIndex(s, i) == i >= 0 /\ i < Len(s)

Pow256(k) == IF k = 0 THEN 1 ELSE IF k = 1 THEN 256 ELSE IF k = 2 THEN 65536 ELSE 16777216

RECURSIVE StripHigh(_)
\* canonical numeral: drop the most significant zero bytes
StripHigh(bs) == IF bs = <<>> THEN <<>>
                 ELSE IF bs[Len(bs)] = 0 THEN StripHigh(SubSeq(bs, 1, Len(bs) - 1))
                 ELSE bs

\* int.from_bytes(bs, "little", signed=False), as a base-256 numeral
FromBytesUnsigned(bs) == StripHigh(bs)

RECURSIVE SmallUnsigned(_)
\* the integer value of up to three little-endian bytes
SmallUnsigned(bs) == IF bs = <<>> THEN 0 ELSE bs[1] + 256 * SmallUnsigned(Tail(bs))

\* int.from_bytes(bs, "little", signed=True) for at most four bytes
FromBytesSigned(bs) ==
    IF bs = <<>> THEN 0
    ELSE LET k   == Len(bs)
             top == bs[k]
             low == SmallUnsigned(SubSeq(bs, 1, k - 1))
         IN  (IF top >= 128 THEN top - 256 ELSE top) * Pow256(k - 1) + low

\* int.from_bytes(bs, "big") of data[:2]
FromBytesBig2(bs) == IF Len(bs) = 0 THEN 0
                     ELSE IF Len(bs) = 1 THEN bs[1]
                     ELSE bs[1] * 256 + bs[2]

HexChars == <<"0", "1", "2", "3", "4", "5", "6", "7", "8", "9", "A", "B", "C", "D", "E", "F">>

HexChar(d) == HexChars[d + 1]

HexDigitSet == {HexChars[i] : i \in 1..16}

DecChar(d) == HexChars[d + 1]

RECURSIVE HexDigitsOf(_)
\* the hex digits of a natural, most significant first, "" for 0
HexDigitsOf(n) == IF n = 0 THEN <<>> ELSE Append(HexDigitsOf(n \div 16), HexChar(n % 16))

RECURSIVE DecDigitsOf(_)
DecDigitsOf(n) == IF n = 0 THEN <<>> ELSE Append(DecDigitsOf(n \div 10), DecChar(n % 10))

RECURSIVE Zeros(_)
Zeros(k) == IF k <= 0 THEN <<>> ELSE <<"0">> \o Zeros(k - 1)

\* digits of a natural with at least one digit
AtLeastOne(ds) == IF ds = <<>> THEN <<"0">> ELSE ds

\* f"{n:0wX}" for an integer n: sign-aware zero padding to a minimum width w
FormatHexInt(n, w) ==
    LET ds == AtLeastOne(HexDigitsOf(Abs(n)))
    IN  IF n < 0 THEN <<"-">> \o Zeros(w - 1 - Len(ds)) \o ds
        ELSE Zeros(w - Len(ds)) \o ds

\* f"{n}" for an integer n
FormatDecInt(n) ==
    LET ds == AtLeastOne(DecDigitsOf(Abs(n)))
    IN  IF n < 0 THEN <<"-">> \o ds ELSE ds

RECURSIVE HexOfNumeral(_)
\* hex digits of a base-256 numeral, most significant first, two per byte
HexOfNumeral(u) == IF u = <<>> THEN <<>>
                   ELSE HexOfNumeral(Tail(u)) \o <<HexChar(u[1] \div 16), HexChar(u[1] % 16)>>

RECURSIVE StripLeadingZero(_)
StripLeadingZero(ds) == IF ds = <<>> THEN <<>>
                        ELSE IF ds[1] = "0" THEN StripLeadingZero(Tail(ds))
                        ELSE ds

\* f"{u:0wX}" for an unsigned numeral u
FormatHexUnsigned(u, w) ==
    LET ds == AtLeastOne(StripLeadingZero(HexOfNumeral(u)))
    IN  Zeros(w - Len(ds)) \o ds

(***************************************************************************)
(* src/instruction_data.py: the register table, the register-embedded      *)
(* bases and the opcode registry                                            *)
(***************************************************************************)
GLOBAL_REGISTER_NAMES == <<"eax", "ecx", "edx", "ebx", "esp", "ebp", "esi", "edi">>

\* in the order of the list, which is the scan order of regadd_check_opcode
REGADD_OPCODES == <<72, 64, 184, 88, 80>>

ENCODINGS == {"I", "MI", "MR", "RM", "M", "O", "OI", "D", "FD", "TD", "ZO"}

\* extension_map=None
NoExtension == [r \in {} |-> "None"]

AllModes == {0, 1, 2, 3}

\* InstructionInfo.__init__; prefix_map and opcode_plus are never read
InstructionInfo(opcode, mnemonic, has_modrm, encoding, extension_map, addressing_modes, imm_size) ==
    [opcode |-> opcode, mnemonic |-> mnemonic, has_modrm |-> has_modrm,
     encoding |-> encoding, extension_map |-> extension_map,
     addressing_modes |-> addressing_modes, imm_size |-> imm_size]

\* the records that take every default: no extension, all modes, imm_size 4
Plain(opcode, mnemonic, has_modrm, encoding) ==
    InstructionInfo(opcode, mnemonic, has_modrm, encoding, NoExtension, AllModes, 4)

\* the records with imm_size given
Sized(opcode, mnemonic, encoding, imm_size) ==
    InstructionInfo(opcode, mnemonic, FALSE, encoding, NoExtension, AllModes, imm_size)

\* the records with an extension map
Extended(opcode, encoding, extension_map, addressing_modes) ==
    InstructionInfo(opcode, "None", TRUE, encoding, extension_map, addressing_modes, 4)

GLOBAL_INSTRUCTIONS_MAP ==
       (5 :> Plain(5, "add eax,", FALSE, "I"))
    @@ (1 :> Plain(1, "add", TRUE, "MR"))
    @@ (3 :> Plain(3, "add", TRUE, "RM"))
    @@ (37 :> Plain(37, "and eax,", FALSE, "I"))
    @@ (33 :> Plain(33, "and", TRUE, "MR"))
    @@ (35 :> Plain(35, "and", TRUE, "RM"))
    @@ (232 :> Plain(232, "call", FALSE, "D"))
    @@ (4014 :> Extended(4014, "M", (7 :> "clflush"), {0, 1, 2}))
    @@ (61 :> Plain(61, "cmp eax,", FALSE, "I"))
    @@ (57 :> Plain(57, "cmp", TRUE, "MR"))
    @@ (59 :> Plain(59, "cmp", TRUE, "RM"))
    @@ (72 :> Plain(72, "dec", FALSE, "O"))
    @@ (64 :> Plain(64, "inc", FALSE, "O"))
    @@ (235 :> Sized(235, "jmp", "D", 1))
    @@ (233 :> Plain(233, "jmp", FALSE, "D"))
    @@ (116 :> Sized(116, "jz", "D", 1))
    @@ (117 :> Sized(117, "jnz", "D", 1))
    @@ (3973 :> Plain(3973, "jnz", FALSE, "D"))
    @@ (3972 :> Plain(3972, "jz", FALSE, "D"))
    @@ (141 :> InstructionInfo(141, "lea", TRUE, "RM", NoExtension, {0, 1, 2}, 4))
    @@ (161 :> Plain(161, "mov", FALSE, "FD"))
    @@ (163 :> Plain(163, "mov", FALSE, "TD"))
    @@ (184 :> Plain(184, "mov", FALSE, "OI"))
    @@ (199 :> Extended(199, "MI", (0 :> "mov"), AllModes))
    @@ (137 :> Plain(137, "mov", TRUE, "MR"))
    @@ (139 :> Plain(139, "mov", TRUE, "RM"))
    @@ (165 :> Plain(165, "movsd", FALSE, "ZO"))
    @@ (144 :> Plain(144, "nop", FALSE, "ZO"))
    @@ (13 :> Plain(13, "or eax,", FALSE, "I"))
    @@ (9 :> Plain(9, "or", TRUE, "MR"))
    @@ (11 :> Plain(11, "or", TRUE, "RM"))
    @@ (143 :> Extended(143, "M", (0 :> "pop"), AllModes))
    @@ (88 :> Plain(88, "pop", FALSE, "O"))
    @@ (80 :> Plain(80, "push", FALSE, "O"))
    @@ (104 :> Plain(104, "push", FALSE, "I"))
    @@ (106 :> Sized(106, "push", "I", 1))
    @@ (62119 :> Plain(62119, "repne cmpsd", FALSE, "ZO"))
    @@ (203 :> Plain(203, "retf", FALSE, "ZO"))
    @@ (202 :> Sized(202, "retf", "I", 2))
    @@ (195 :> Plain(195, "retn", FALSE, "ZO"))
    @@ (194 :> Sized(194, "retn", "I", 2))
    @@ (45 :> Plain(45, "sub", FALSE, "I"))
    @@ (41 :> Plain(41, "sub", TRUE, "MR"))
    @@ (43 :> Plain(43, "sub", TRUE, "RM"))
    @@ (169 :> Plain(169, "test eax,", FALSE, "I"))
    @@ (133 :> Plain(133, "test", TRUE, "MR"))
    @@ (53 :> Plain(53, "xor eax,", FALSE, "I"))
    @@ (49 :> Plain(49, "xor", TRUE, "MR"))
    @@ (51 :> Plain(51, "xor", TRUE, "RM"))
    @@ (255 :> Extended(255, "M", (0 :> "inc") @@ (1 :> "dec") @@ (2 :> "call") @@ (4 :> "jmp") @@ (6 :> "push"), AllModes))
    @@ (129 :> Extended(129, "MI", (0 :> "add") @@ (1 :> "or") @@ (4 :> "and") @@ (5 :> "sub") @@ (6 :> "xor") @@ (7 :> "cmp"), AllModes))
    @@ (247 :> Extended(247, "M", (0 :> "test") @@ (2 :> "not") @@ (7 :> "idiv"), AllModes))

OpcodeKeys == DOMAIN GLOBAL_INSTRUCTIONS_MAP

(***************************************************************************)
(* byte_utils (imported by src/disassemble.py line 9, not in the sources): *)
(* modelled from the specification, section 4.1                            *)
(***************************************************************************)
\* (mod, reg, rm): bits 7-6, 5-3, 2-0 of the addressing descriptor byte
parse_modrm(b) == <<b \div 64, (b \div 8) % 8, b % 8>>

\* (scale, index, base): 2 raised to bits 7-6, bits 5-3, bits 2-0
parse_sib(b) == <<2 ^ (b \div 64), (b \div 8) % 8, b % 8>>

\* two's-complement reading of one byte
to_signed(b) == IF b >= 128 THEN b - 256 ELSE b

(***************************************************************************)
(* src/disassemble.py: the instruction token                               *)
(***************************************************************************)
\* the immediate field holds None, an int or a str
ImmNone == [kind |-> "none", num |-> 0, text |-> <<>>]

ImmInt(n) == [kind |-> "int", num |-> n, text |-> <<>>]

ImmStr(t) == [kind |-> "str", num |-> 0, text |-> t]

\* Instruction.__init__; scale, index and base are never passed and stay None
Instruction(mnemonic, encoding, immediate, reg, rm, is_db) ==
    [mnemonic |-> mnemonic, encoding |-> encoding, immediate |-> immediate,
     reg |-> reg, rm |-> rm, scale |-> "None", index |-> "None", base |-> "None",
     is_db |-> is_db]

\* Instruction(immediate=data[0], is_db=True)
DbInstruction(b) == Instruction("None", "None", ImmInt(b), "None", <<>>, TRUE)

\* what a decode function hands back: a raised exception, or (instruction, size)
Raised == [raised |-> TRUE, instruction |-> DbInstruction(0), size |-> 0]

Returned(instruction, size) == [raised |-> FALSE, instruction |-> instruction, size |-> size]

\* list[i] with Python's negative indices; ok = FALSE is IndexError
PyIndexOk(list, i) == i >= 0 - Len(list) /\ i < Len(list)

PyIndex(list, i) == IF i >= 0 THEN list[i + 1] ELSE list[Len(list) + i + 1]

\* the truth value of instruction_info.extension_map
HasExtension(instruction_info) == DOMAIN instruction_info.extension_map # {}

\* modrm_get_mnemonic raises
modrm_get_mnemonic_raises(reg, instruction_info) ==
    HasExtension(instruction_info) /\ reg \notin DOMAIN instruction_info.extension_map

modrm_get_mnemonic(reg, instruction_info) ==
    IF HasExtension(instruction_info) /\ reg \in DOMAIN instruction_info.extension_map
    THEN instruction_info.extension_map[reg]
    ELSE instruction_info.mnemonic

\* the mode taken without the membership test of line 85
ModeAlwaysAccepted(mod, instruction_info) == FALSE

\* modrm_get_addressing_mode raises; otherwise it returns mod
modrm_get_addressing_mode_raises(mod, instruction_info) ==
    mod \notin instruction_info.addressing_modes

(***************************************************************************)
(* src/disassemble.py: modrm_disassemble                                   *)
(***************************************************************************)
RegName(i) == GLOBAL_REGISTER_NAMES[i + 1]

\* f" + 0x{displacement:08X}" unless the displacement is 0
DwordDisplacementText(displacement) ==
    IF displacement = <<>> THEN <<>>
    ELSE <<" + 0x">> \o FormatHexUnsigned(displacement, 8)

\* f" {+ or -} 0x{abs(displacement):02X}" unless the displacement is 0
ByteDisplacementText(displacement) ==
    IF displacement = 0 THEN <<>>
    ELSE <<" ", IF displacement > 0 THEN "+" ELSE "-", " 0x">>
         \o FormatHexInt(Abs(displacement), 2)

\* the operand text inside the brackets for a scale-index-base byte
SibText(sib) ==
    IF sib[2] = 4 THEN <<RegName(sib[3])>>
    ELSE <<RegName(sib[2]), "*">> \o FormatDecInt(sib[1]) \o <<" + ", RegName(sib[3])>>

OperandRaised == [raised |-> TRUE, rm |-> <<>>, added |-> 0]

Operand(rm, added) == [raised |-> FALSE, rm |-> rm, added |-> added]

\* lines 114-115: r/m is a direct register
OperandMod3(buf, rm) == Operand(<<RegName(rm)>>, 0)

\* lines 118-137: register + dword displacement
OperandMod2(buf, rm) ==
    IF rm = 4
    THEN IF ~HasIndex(buf, 1) THEN OperandRaised
         ELSE Operand(<<"[ dword ">> \o SibText(parse_sib(buf[2]))
                        \o DwordDisplacementText(FromBytesUnsigned(Slice(buf, 2, 6)))
                        \o <<" ]">>, 5)
    ELSE Operand(<<"[ dword ", RegName(rm)>>
                   \o DwordDisplacementText(FromBytesUnsigned(Slice(buf, 1, 5)))
                   \o <<" ]">>, 4)

\* lines 140-161: register + byte displacement
OperandMod1(buf, rm) ==
    IF rm = 4
    THEN IF ~HasIndex(buf, 2) THEN OperandRaised
         ELSE Operand(<<"[ byte ">> \o SibText(parse_sib(buf[2]))
                        \o ByteDisplacementText(to_signed(buf[3]))
                        \o <<" ]">>, 2)
    ELSE IF ~HasIndex(buf, 1) THEN OperandRaised
         ELSE Operand(<<"[ byte ", RegName(rm)>>
                        \o ByteDisplacementText(to_signed(buf[2]))
                        \o <<" ]">>, 1)

\* lines 177-189: mod 0 with a scale-index-base byte
OperandMod0Sib(buf, sib) ==
    IF sib[2] = 4 THEN Operand(<<"[ ", RegName(sib[3]), " ]">>, 1)
    ELSE IF sib[3] = 5
    THEN Operand(<<"[ ", RegName(sib[2]), "*">> \o FormatDecInt(sib[1])
                   \o DwordDisplacementText(FromBytesUnsigned(Slice(buf, 2, 6)))
                   \o <<" ]">>, 5)
    ELSE Operand(<<"[ ", RegName(sib[2]), "*">> \o FormatDecInt(sib[1])
                   \o <<" + ", RegName(sib[3]), " ]">>, 1)

\* lines 164-193: mod 0 and its special cases
OperandMod0(buf, rm) ==
    IF rm = 5
    THEN Operand(<<"[ 0x">> \o FormatHexUnsigned(FromBytesUnsigned(Slice(buf, 1, 5)), 8)
                   \o <<" ]">>, 4)
    ELSE IF rm = 4
    THEN IF ~HasIndex(buf, 1) THEN OperandRaised
         ELSE OperandMod0Sib(buf, parse_sib(buf[2]))
    ELSE Operand(<<"[ ", RegName(rm), " ]">>, 0)

\* lines 111-193: the operand by addressing mode
ModrmOperand(buf, mod, rm) ==
    IF mod = 3 THEN OperandMod3(buf, rm)
    ELSE IF mod = 2 THEN OperandMod2(buf, rm)
    ELSE IF mod = 1 THEN OperandMod1(buf, rm)
    ELSE OperandMod0(buf, rm)

\* lines 198-204: where the immediate of an MI instruction is read from
MiImmediateBytes(buf, instruction_size, imm_size) ==
    Slice(buf, instruction_size - 1, instruction_size - 1 + imm_size)

\* lines 196-208: the immediate of an MI instruction
MiImmediate(buf, instruction_size, imm_size) ==
    LET bs == MiImmediateBytes(buf, instruction_size, imm_size)
    IN  IF imm_size = 4 THEN ImmStr(<<"0x">> \o FormatHexUnsigned(FromBytesUnsigned(bs), 8))
        ELSE ImmInt(SmallUnsigned(bs))

\* buf (data in the source) is the buffer after the opcode
modrm_disassemble(buf, opcode_size, instruction_info) ==
    IF ~HasIndex(buf, 0) THEN Raised
    ELSE LET m   == parse_modrm(buf[1])
             mod == m[1]
             reg == m[2]
             rm  == m[3]
         IN  IF modrm_get_mnemonic_raises(reg, instruction_info) THEN Raised
             ELSE IF modrm_get_addressing_mode_raises(mod, instruction_info) THEN Raised
             ELSE LET op == ModrmOperand(buf, mod, rm)
                      instruction_size == opcode_size + 1 + op.added
                  IN  IF op.raised THEN Raised
                      ELSE IF instruction_info.encoding = "MI"
                      THEN Returned(Instruction(modrm_get_mnemonic(reg, instruction_info),
                                                instruction_info.encoding,
                                                MiImmediate(buf, instruction_size, instruction_info.imm_size),
                                                RegName(reg), op.rm, FALSE),
                                    instruction_size + instruction_info.imm_size)
                      ELSE Returned(Instruction(modrm_get_mnemonic(reg, instruction_info),
                                                instruction_info.encoding, ImmNone,
                                                RegName(reg), op.rm, FALSE),
                                    instruction_size)

(***************************************************************************)
(* src/disassemble.py: no_modrm_no_regadd_disassemble                      *)
(***************************************************************************)
\* lines 240-258: the immediate of an I instruction, by width
PlainImmediate(buf, imm_size) ==
    LET bs == Slice(buf, 0, imm_size)
    IN  IF imm_size = 4 THEN ImmStr(<<"0x">> \o FormatHexUnsigned(FromBytesUnsigned(bs), 8))
        ELSE IF imm_size = 2 THEN ImmStr(<<"0x">> \o FormatHexUnsigned(FromBytesUnsigned(bs), 4))
        ELSE ImmStr(FormatDecInt(FromBytesSigned(bs)))

\* the destination computed without the instruction's starting offset
RelativeImmediateNoOffset(buf, imm_size, offset, instruction_size) ==
    ImmInt(FromBytesSigned(Slice(buf, 0, imm_size)) + instruction_size)

\* lines 261-273: the else branch of "encoding == I", taken by D, FD and TD
RelativeImmediate(buf, imm_size, offset, instruction_size) ==
    ImmInt(FromBytesSigned(Slice(buf, 0, imm_size)) + offset + instruction_size)

\* buf (data in the source) is the buffer after the opcode; this function raises nothing
no_modrm_no_regadd_disassemble(buf, opcode_size, instruction_info, offset) ==
    IF instruction_info.encoding = "ZO"
    THEN Returned(Instruction(instruction_info.mnemonic, instruction_info.encoding,
                              ImmNone, "None", <<>>, FALSE), opcode_size)
    ELSE LET reg == IF instruction_info.encoding \in {"TD", "FD"} THEN "eax" ELSE "None"
             instruction_size == opcode_size + instruction_info.imm_size
             immediate == IF instruction_info.encoding = "I"
                          THEN PlainImmediate(buf, instruction_info.imm_size)
                          ELSE RelativeImmediate(buf, instruction_info.imm_size,
                                                 offset, instruction_size)
         IN  Returned(Instruction(instruction_info.mnemonic, instruction_info.encoding,
                                  immediate, reg, <<>>, FALSE), instruction_size)

(***************************************************************************)
(* src/disassemble.py: regadd_check_opcode, regadd_disassemble             *)
(***************************************************************************)
RegaddMatches(opcode, regadd_opcode) ==
    opcode - regadd_opcode >= 0 /\ opcode - regadd_opcode < 8

RECURSIVE RegaddScan(_, _)
\* the first base of the list, in list order, that matches; 0 - 1 is None
RegaddScan(opcode, bases) ==
    IF bases = <<>> THEN 0 - 1
    ELSE IF RegaddMatches(opcode, Head(bases)) THEN Head(bases)
    ELSE RegaddScan(opcode, Tail(bases))

\* the base whose record regadd_check_opcode returns, 0 - 1 for None
regadd_check_opcode(opcode) == RegaddScan(opcode, REGADD_OPCODES)

\* the subtraction of line 293 the other way round
RegaddIndexReversed(buf, instruction_info) == instruction_info.opcode - buf[1]

\* lines 293: the register index, data[0] - instruction_info.opcode
RegaddIndex(buf, instruction_info) == buf[1] - instruction_info.opcode

\* buf (data in the source) is the buffer from the opcode on
regadd_disassemble(buf, instruction_info) ==
    LET i == RegaddIndex(buf, instruction_info)
    IN  IF ~PyIndexOk(GLOBAL_REGISTER_NAMES, i) THEN Raised
        ELSE IF instruction_info.encoding = "OI"
        THEN Returned(Instruction(instruction_info.mnemonic, instruction_info.encoding,
                                  ImmStr(<<"0x">> \o FormatHexUnsigned(
                                      FromBytesUnsigned(Slice(buf, 1, 1 + instruction_info.imm_size)), 8)),
                                  PyIndex(GLOBAL_REGISTER_NAMES, i), <<>>, FALSE),
                      1 + instruction_info.imm_size)
        ELSE Returned(Instruction(instruction_info.mnemonic, instruction_info.encoding,
                                  ImmNone, PyIndex(GLOBAL_REGISTER_NAMES, i), <<>>, FALSE), 1)

(***************************************************************************)
(* src/disassemble.py: disassemble                                         *)
(***************************************************************************)
\* lines 308-323: the record the leading bytes select.  found = FALSE is the
\* unknown byte; opcode_size = 0 is the local left unbound by the third branch
Lookup(buf) ==
    IF buf[1] \in OpcodeKeys
    THEN [found |-> TRUE, opcode_size |-> 1, key |-> buf[1]]
    ELSE IF FromBytesBig2(Slice(buf, 0, 2)) \in OpcodeKeys
    THEN [found |-> TRUE, opcode_size |-> 2, key |-> FromBytesBig2(Slice(buf, 0, 2))]
    ELSE IF regadd_check_opcode(buf[1]) >= 0
    THEN [found |-> TRUE, opcode_size |-> 0, key |-> regadd_check_opcode(buf[1])]
    ELSE [found |-> FALSE, opcode_size |-> 0, key |-> 0]

\* lines 328-345: the body of the try block; reading the unbound opcode_size
\* raises UnboundLocalError
Decode(buf, offset, opcode_size, instruction_info) ==
    IF instruction_info.has_modrm
    THEN IF opcode_size = 0 THEN Raised
         ELSE modrm_disassemble(SliceFrom(buf, opcode_size), opcode_size, instruction_info)
    ELSE IF instruction_info.encoding \in {"O", "OI"}
    THEN regadd_disassemble(buf, instruction_info)
    ELSE IF opcode_size = 0 THEN Raised
    ELSE no_modrm_no_regadd_disassemble(SliceFrom(buf, opcode_size), opcode_size,
                                        instruction_info, offset)

\* the except clause consuming nothing
FallbackConsumesNothing(buf) == Returned(DbInstruction(buf[1]), 0)

\* the except clause skipping the whole opcode it failed on
FallbackSkipsOpcode(buf) == Returned(DbInstruction(buf[1]), Lookup(buf).opcode_size)

\* line 348: what the except clause returns
Fallback(buf) == Returned(DbInstruction(buf[1]), 1)

\* the consumed size counted from the start of the file instead of from the
\* start of the instruction
disassembleSizeFromFileStart(buf, offset) ==
    LET l == Lookup(buf)
    IN  IF ~l.found THEN Returned(DbInstruction(buf[1]), 1)
        ELSE LET r == Decode(buf, offset, l.opcode_size, GLOBAL_INSTRUCTIONS_MAP[l.key])
             IN  IF r.raised THEN Fallback(buf)
                 ELSE [r EXCEPT !.size = @ + offset]

\* buf is the non-empty suffix data[counter:]
disassemble(buf, offset) ==
    LET l == Lookup(buf)
    IN  IF ~l.found THEN Returned(DbInstruction(buf[1]), 1)
        ELSE LET r == Decode(buf, offset, l.opcode_size, GLOBAL_INSTRUCTIONS_MAP[l.key])
             IN  IF r.raised THEN Fallback(buf) ELSE r

(***************************************************************************)
(* src/disassemble.py: linnear_sweep                                       *)
(***************************************************************************)
\* lines 369-370: f"offset_{instruction.immediate:08X}h"
DestLabel(immediate) == <<"offset_">> \o FormatHexInt(immediate, 8) \o <<"h">>

\* line 371: labels[key] = value
DictSet(dict, key, value) ==
    [k \in DOMAIN dict \cup {key} |-> IF k = key THEN value ELSE dict[k]]

EmptyDict == [k \in {} |-> 0]

\* lines 367-372: the label of a relative-displacement instruction
Labelled(instruction) ==
    IF instruction.encoding = "D"
    THEN [instruction EXCEPT !.immediate = ImmStr(DestLabel(instruction.immediate.num))]
    ELSE instruction

\* the cursor stepping one byte whatever was consumed
AdvanceOneByte(cursor, instruction_size) == cursor + 1

\* line 381: the cursor after an instruction
Advance(cursor, instruction_size) == cursor + instruction_size

\* lines 359-381: one iteration of the while loop.  consumed records the
\* instruction_size of each iteration under its original_offset
Step ==
    /\ pc = "scan"
    /\ counter < Len(data)
    /\ \E r \in {disassemble(SliceFrom(data, counter), counter)} :
       LET original_offset == counter
       IN  /\ labels' = IF r.instruction.encoding = "D"
                        THEN DictSet(labels, r.instruction.immediate.num,
                                     DestLabel(r.instruction.immediate.num))
                        ELSE labels
           /\ output_list' = DictSet(output_list, original_offset,
                                     [instruction |-> Labelled(r.instruction),
                                      raw |-> Slice(data, original_offset,
                                                    original_offset + r.size)])
           /\ consumed' = DictSet(consumed, original_offset, r.size)
           /\ counter' = Advance(counter, r.size)
    /\ UNCHANGED <<data, pc>>

RECURSIVE SweepFrom(_, _)
\* lines 359-381 as a function of the buffer: the instruction_size of every
\* iteration of the while loop from the cursor on, under its original_offset
SweepFrom(buf, cursor) ==
    IF ~(cursor < Len(buf)) THEN EmptyDict
    ELSE LET r == disassemble(SliceFrom(buf, cursor), cursor)
         IN  DictSet(SweepFrom(buf, Advance(cursor, r.size)), cursor, r.size)

\* lines 351-383: the offsets linnear_sweep decodes at, with the sizes consumed
linnear_sweep(buf) == SweepFrom(buf, 0)

\* line 383: the loop ends and the two mappings are returned
Return ==
    /\ pc = "scan"
    /\ ~(counter < Len(data))
    /\ pc' = "done"
    /\ UNCHANGED <<data, counter, output_list, labels, consumed>>

\* lines 352-354: the state before the file is read
Init ==
    /\ data = <<>>
    /\ counter = 0
    /\ output_list = EmptyDict
    /\ labels = EmptyDict
    /\ consumed = EmptyDict
    /\ pc = "load"

\* line 357: data = get_file(filename), for a file out of a set of files
Load(files) ==
    /\ pc = "load"
    /\ \E buffer \in files : data' = buffer
    /\ pc' = "scan"
    /\ UNCHANGED <<counter, output_list, labels, consumed>>

(***************************************************************************)
(* The input files                                                         *)
(***************************************************************************)
RECURSIVE SeqsUpTo(_, _)
\* the sequences over S of length at most n
SeqsUpTo(S, n) ==
    IF n = 0 THEN {<<>>}
    ELSE LET shorter == SeqsUpTo(S, n - 1)
         IN  shorter \cup {Append(q, x) : q \in shorter, x \in S}

\* bytes of the general sweep: 00, 04 (unknown; mod 0 + SIB), 05 (add eax;
\* disp32 selector; SIB base 5), 0F, 44 (inc esp; mod 1 + SIB), 53 (push ebx),
\* 58 (pop eax; extension 3), 84 (second byte of jz; mod 2 + SIB), 8D (lea),
\* 90 (nop), A1 (mov eax), AE (second byte of clflush), B8 (mov r32, imm32),
\* C7 (mov r/m, imm32; mod 3), D6 (unknown), EB (jmp short), FF (group; mod 3)
SweepBytes == {0, 4, 5, 15, 68, 83, 88, 132, 141, 144, 161, 174, 184, 199, 214, 235, 255}

SweepFiles == SeqsUpTo(SweepBytes, MaxLen) \ {<<>>}

Next == Load(SweepFiles) \/ Step \/ Return

Spec == Init /\ [][Next]_vars

\* bytes of the files swept under fairness: 00, 0F, 90, AE, B8, C7, EB, FF
FairBytes == {0, 15, 144, 174, 184, 199, 235, 255}

FairFiles == SeqsUpTo(FairBytes, MaxLen) \ {<<>>}

NextFair == Load(FairFiles) \/ Step \/ Return

\* linnear_sweep runs to its end without waiting on anything: a step that can
\* be taken is taken
FairSpec == Init /\ [][NextFair]_vars /\ WF_vars(NextFair)

(***************************************************************************)
(* Files that hold one addressing-byte instruction: an opcode with an      *)
(* addressing descriptor byte, then up to MaxTail further bytes            *)
(***************************************************************************)
\* add r/m,r (01); lea (8D); mov r/m,imm32 (C7); group 81; group FF;
\* clflush (0F AE); and 00 C7, 00 81, 00 01, which the two-byte lookup of
\* line 314 finds under the keys C7, 81 and 01
ModrmOpcodes == {<<1>>, <<141>>, <<199>>, <<129>>, <<255>>, <<15, 174>>,
                 <<0, 199>>, <<0, 129>>, <<0, 1>>}

\* every mode, the register selectors 0 and 7, the operand selectors 0, 4, 5
ModrmBytes == {mod * 64 + reg * 8 + rm : mod \in 0..3, reg \in {0, 7}, rm \in {0, 4, 5}}

\* 00 (index 0, base 0), 25 (index 4, base 5), 85 (index 0, base 5; negative)
TailBytes == {0, 37, 133}

ModrmFiles ==
    {opcode \o <<m>> \o tail :
        opcode \in ModrmOpcodes, m \in ModrmBytes, tail \in SeqsUpTo(TailBytes, MaxTail)}

NextModrm == Load(ModrmFiles) \/ Step \/ Return

SpecModrm == Init /\ [][NextModrm]_vars

(***************************************************************************)
(* Files that hold one instruction without addressing byte, possibly after *)
(* a nop, then up to MaxOperand further bytes                              *)
(***************************************************************************)
\* add eax (05), push imm32 (68), push imm8 (6A), retn imm16 (C2), call (E8),
\* jmp (E9), jmp short (EB), jz (74), jnz (75), jz near (0F 84), jnz near
\* (0F 85), mov eax,moffs (A1), mov moffs,eax (A3), mov r32,imm32 (B8, BB),
\* push (50, 53), pop (58), nop (90), repne cmpsd (F2 A7), and 00 E8, 00 A1
PlainOpcodes == {<<5>>, <<104>>, <<106>>, <<194>>, <<232>>, <<233>>, <<235>>, <<116>>,
                 <<117>>, <<15, 132>>, <<15, 133>>, <<161>>, <<163>>, <<184>>, <<187>>,
                 <<80>>, <<83>>, <<88>>, <<144>>, <<242, 167>>, <<0, 232>>, <<0, 161>>}

\* 00, 01 and 84 (negative as the top byte of a displacement)
OperandBytes == {0, 1, 132}

PlainFiles ==
    {before \o opcode \o operand :
        before \in {<<>>, <<144>>}, opcode \in PlainOpcodes,
        operand \in SeqsUpTo(OperandBytes, MaxOperand)}

NextPlain == Load(PlainFiles) \/ Step \/ Return

SpecPlain == Init /\ [][NextPlain]_vars

(***************************************************************************)
(* Properties                                                              *)
(***************************************************************************)
Keys == DOMAIN output_list

\* the byte of the file at 0-based offset s
ByteAt(s) == data[s + 1]

\* decoding the suffix at offset s raises inside the try block
FaultAt(s) ==
    LET buf == SliceFrom(data, s)
        l   == Lookup(buf)
    IN  l.found /\ Decode(buf, s, l.opcode_size, GLOBAL_INSTRUCTIONS_MAP[l.key]).raised

\* the opcode width the dispatch finds at offset s (0: none, or register-embedded scan)
OpcodeWidthAt(s) == Lookup(SliceFrom(data, s)).opcode_size

\* C1: the sweep terminates on every buffer: every iteration of the loop
\* moves the cursor forward by at least 1 (every step that is not the final
\* return strictly increases the cursor), and the loop is eventually left.
C1_SweepTerminates ==
    /\ [][pc = "scan" => (counter' > counter \/ pc' = "done")]_vars
    /\ <>(pc = "done")

\* a sweep of three decode steps, one of them a fallback, that has returned
C1_Witness ==
    /\ pc = "done"
    /\ Cardinality(Keys) >= 3
    /\ \E s \in Keys : FaultAt(s)

\* C2: when the sweep has finished, the cursor equals the buffer length
C2_FinalCursorIsLength == pc = "done" => counter = Len(data)

\* C3: a fault raised while decoding at offset s gives the placeholder token
\* carrying the byte at s, with consumed size 1, also under a two-byte
\* opcode, and the next decode step starts at s + 1.
C3_FaultIsOneBytePlaceholder ==
    \A s \in Keys :
        FaultAt(s) =>
            /\ output_list[s].instruction = DbInstruction(ByteAt(s))
            /\ output_list[s].raw = <<ByteAt(s)>>
            /\ consumed[s] = 1
            /\ counter >= s + 1
            /\ (s + 1 < Len(data) /\ counter > s + 1) => s + 1 \in Keys

\* a two-byte opcode has faulted and the byte after it was decoded next
C3_Witness ==
    \E s \in Keys :
        /\ FaultAt(s)
        /\ OpcodeWidthAt(s) = 2
        /\ s + 1 \in Keys
        /\ pc = "done"

\* the opcode width of the instruction at s as the bytes show it: a leading
\* byte that is a one-byte key, else two bytes
WidthAt(s) == IF ByteAt(s) \in OpcodeKeys THEN 1 ELSE 2

\* the last byte of the opcode at s
OpcodeByteAt(s) == ByteAt(s + WidthAt(s) - 1)

\* a relative-displacement token is stored at s
IsRelative(s) == output_list[s].instruction.encoding = "D"

\* the immediate width of the relative-displacement opcodes: 1 for EB, 74, 75
RelativeWidth(s) == IF OpcodeByteAt(s) \in {235, 116, 117} THEN 1 ELSE 4

\* the signed little-endian displacement of the relative instruction at s
DisplacementAt(s) ==
    FromBytesSigned(Slice(data, s + WidthAt(s), s + WidthAt(s) + RelativeWidth(s)))

\* s + n + d
DestinationAt(s) == s + WidthAt(s) + RelativeWidth(s) + DisplacementAt(s)

\* C4: every relative-displacement token (opcodes E8, E9, EB, 74, 75, 0F 84,
\* 0F 85) stored at s with consumed size n = opcode width + immediate width
\* and displacement d has its label under the key s + n + d, the label made
\* from that key, and holds that label as its immediate; the label mapping
\* has no other keys.
C4_LabelsAreDestinations ==
    /\ \A s \in Keys :
        IsRelative(s) =>
            /\ OpcodeByteAt(s) \in {232, 233, 235, 116, 117, 132, 133}
            /\ consumed[s] = WidthAt(s) + RelativeWidth(s)
            /\ DestinationAt(s) \in DOMAIN labels
            /\ labels[DestinationAt(s)] = DestLabel(DestinationAt(s))
            /\ output_list[s].instruction.immediate = ImmStr(DestLabel(DestinationAt(s)))
    /\ DOMAIN labels = {DestinationAt(s) : s \in {t \in Keys : IsRelative(t)}}

\* a call or near jump after a nop, with all four displacement bytes in the
\* file and a forward displacement, in a finished sweep
C4_Witness ==
    /\ pc = "done"
    /\ \E s \in Keys :
        /\ s > 0
        /\ IsRelative(s)
        /\ RelativeWidth(s) = 4
        /\ s + consumed[s] <= Len(data)
        /\ DisplacementAt(s) > 0
        /\ DestinationAt(s) \in DOMAIN labels

\* C5: every label is offset_ + exactly 8 uppercase hex digits + h, the
\* digits being the zero-padded destination; every label key is a
\* non-negative integer (no sign, no ninth digit).
C5_LabelForm ==
    \A k \in DOMAIN labels :
        /\ k >= 0
        /\ Len(labels[k]) = 10
        /\ labels[k][1] = "offset_"
        /\ \A i \in 2..9 : labels[k][i] \in HexDigitSet
        /\ labels[k][10] = "h"
        /\ SubSeq(labels[k], 2, 9) = Zeros(8 - Len(HexDigitsOf(k))) \o HexDigitsOf(k)

RECURSIVE RawFrom(_)
\* the stored raw slices from key s on, concatenated in key order
RawFrom(s) == IF s \notin Keys THEN <<>>
              ELSE output_list[s].raw \o RawFrom(s + consumed[s])

\* the output mapping tiles the scanned prefix
Tiling ==
    /\ DOMAIN consumed = Keys
    /\ Keys # {} => 0 \in Keys
    /\ Keys = {} => counter = 0
    /\ \A s \in Keys :
        /\ s >= 0 /\ s < Len(data)
        /\ s + consumed[s] \in Keys \/ s + consumed[s] = counter
        /\ \A t \in Keys : ~(s < t /\ t < s + consumed[s])
        /\ s + consumed[s] <= counter
    /\ RawFrom(0) = Slice(data, 0, counter)
    /\ pc = "done" => RawFrom(0) = data

\* C6: at every point of the sweep the output mapping tiles the scanned
\* prefix: the first key is 0, each later key is the previous key plus the
\* previous consumed size, every key is an index of the buffer, the raw
\* slices concatenated in key order are the buffer from 0 up to the cursor
\* (the whole buffer once the sweep has returned), and keys are inserted in
\* strictly ascending order.
C6_OutputTilesPrefix ==
    /\ []Tiling
    /\ [][\A k \in DOMAIN output_list' \ DOMAIN output_list :
            \A s \in DOMAIN output_list : s < k]_vars

\* a finished sweep of several entries, one of them longer than a byte
C6_Witness ==
    /\ pc = "done"
    /\ Cardinality(Keys) >= 2
    /\ \E s \in Keys : consumed[s] >= 2 /\ s + consumed[s] \in Keys

\* the bases of the register-embedded families that b falls in
BasesOf(b) == {base \in {64, 72, 80, 88, 184} : 0 <= b - base /\ b - base < 8}

RECURSIVE Reversed(_)
Reversed(q) == IF q = <<>> THEN <<>> ELSE Append(Reversed(Tail(q)), Head(q))

\* the two-byte big-endian key at s, 0 - 1 when the file ends after one byte
TwoByteKeyAt(s) == IF s + 1 < Len(data) THEN ByteAt(s) * 256 + ByteAt(s + 1) ELSE 0 - 1

\* C7: dispatch looks the leading byte up as a one-byte key, then the two
\* leading bytes as a big-endian key, then the register-embedded families,
\* and else gives the placeholder; a byte b of a family decodes to the
\* mnemonic of the record of its base with register b - base (in 0..7),
\* consuming 1 byte (5 in the B8 family); a byte falls in at most one family,
\* so the scan order of the list does not matter.
C7_DispatchOrderAndFamilies ==
    \A s \in Keys :
        LET b   == ByteAt(s)
            ins == output_list[s].instruction
        IN  /\ Cardinality(BasesOf(b)) <= 1
            /\ RegaddScan(b, REGADD_OPCODES) = RegaddScan(b, Reversed(REGADD_OPCODES))
            /\ \A base \in BasesOf(b) :
                /\ ~ins.is_db
                /\ ins.mnemonic = GLOBAL_INSTRUCTIONS_MAP[base].mnemonic
                /\ b - base \in 0..7
                /\ ins.reg = GLOBAL_REGISTER_NAMES[b - base + 1]
                /\ consumed[s] = IF base = 184 THEN 5 ELSE 1
            /\ (b \in OpcodeKeys /\ ~ins.is_db) =>
                   ins.encoding = GLOBAL_INSTRUCTIONS_MAP[b].encoding
            /\ (b \notin OpcodeKeys /\ TwoByteKeyAt(s) \in OpcodeKeys /\ ~ins.is_db) =>
                   ins.encoding = GLOBAL_INSTRUCTIONS_MAP[TwoByteKeyAt(s)].encoding
            /\ (b \notin OpcodeKeys /\ TwoByteKeyAt(s) \notin OpcodeKeys /\ BasesOf(b) = {}) =>
                   ins = DbInstruction(b) /\ consumed[s] = 1

\* push ebx (53) and a mov r32, imm32 (B8) decoded in one finished sweep
C7_Witness ==
    /\ pc = "done"
    /\ \E s \in Keys : /\ ByteAt(s) = 83
                       /\ output_list[s].instruction.mnemonic = "push"
                       /\ output_list[s].instruction.reg = "ebx"
    /\ \E s \in Keys : ByteAt(s) = 184 /\ consumed[s] = 5

\* the opcode key at s: the leading byte, else the two leading bytes
KeyAt(s) == IF ByteAt(s) \in OpcodeKeys THEN ByteAt(s) ELSE TwoByteKeyAt(s)

\* an addressing-byte opcode stands at s and its addressing byte is in the file
HasModrmAt(s) ==
    /\ KeyAt(s) \in OpcodeKeys
    /\ GLOBAL_INSTRUCTIONS_MAP[KeyAt(s)].has_modrm
    /\ s + WidthAt(s) < Len(data)

\* the addressing descriptor byte of the instruction at s
ModrmAt(s) == ByteAt(s + WidthAt(s))

ModeAt(s) == ModrmAt(s) \div 64

SelectorAt(s) == (ModrmAt(s) \div 8) % 8

OperandSelectorAt(s) == ModrmAt(s) % 8

\* C8: under an opcode with an extension mapping the mnemonic is the
\* mapping's entry for the register selector, and an unmapped selector gives
\* the 1-byte placeholder; under any addressing-byte opcode a mode outside
\* the permitted set gives the 1-byte placeholder (so 8D and 0F AE with
\* mode 3 never give an instruction).
C8_ExtensionAndModeFaults ==
    \A s \in Keys :
        HasModrmAt(s) =>
            LET info == GLOBAL_INSTRUCTIONS_MAP[KeyAt(s)]
                ext  == info.extension_map
                ins  == output_list[s].instruction
            IN  /\ (DOMAIN ext # {} /\ SelectorAt(s) \notin DOMAIN ext) =>
                       ins = DbInstruction(ByteAt(s)) /\ consumed[s] = 1
                /\ ModeAt(s) \notin info.addressing_modes =>
                       ins = DbInstruction(ByteAt(s)) /\ consumed[s] = 1
                /\ (~ins.is_db /\ DOMAIN ext # {}) => ins.mnemonic = ext[SelectorAt(s)]
                /\ (~ins.is_db /\ DOMAIN ext = {}) => ins.mnemonic = info.mnemonic

\* lea with mode 3 fell back to one byte, and the FF after it decoded with
\* selector 0 as inc
C8_Witness ==
    /\ pc = "done"
    /\ 0 \in Keys /\ 1 \in Keys
    /\ ByteAt(0) = 141 /\ ModeAt(0) = 3
    /\ output_list[0].instruction.is_db
    /\ ByteAt(1) = 255 /\ HasModrmAt(1) /\ SelectorAt(1) = 0
    /\ output_list[1].instruction.mnemonic = "inc"

\* an addressing-byte instruction was decoded at s
DecodedModrmAt(s) == HasModrmAt(s) /\ ~output_list[s].instruction.is_db

\* S: one scale-index-base byte when the mode is not 3 and the operand selector is 4
SibBytesAt(s) == IF ModeAt(s) # 3 /\ OperandSelectorAt(s) = 4 THEN 1 ELSE 0

\* the scale-index-base byte of the instruction at s
SibAt(s) == ByteAt(s + WidthAt(s) + 1)

\* D: the displacement bytes by mode
DisplacementBytesAt(s) ==
    IF ModeAt(s) = 2 THEN 4
    ELSE IF ModeAt(s) = 1 THEN 1
    ELSE IF ModeAt(s) = 3 THEN 0
    ELSE IF OperandSelectorAt(s) = 5 THEN 4
    ELSE IF OperandSelectorAt(s) = 4 /\ (SibAt(s) \div 8) % 8 # 4 /\ SibAt(s) % 8 = 5 THEN 4
    ELSE 0

\* I: the immediate width under the addressing+immediate tag
ImmediateBytesAt(s) ==
    IF GLOBAL_INSTRUCTIONS_MAP[KeyAt(s)].encoding = "MI"
    THEN GLOBAL_INSTRUCTIONS_MAP[KeyAt(s)].imm_size ELSE 0

\* the offset right after the addressing and displacement bytes
AfterAddressingAt(s) == s + WidthAt(s) + 1 + SibBytesAt(s) + DisplacementBytesAt(s)

\* the consumed size of a decoded addressing-byte instruction is
\* opcode width + 1 + S + D + I
ModrmSizeFormula ==
    \A s \in Keys :
        DecodedModrmAt(s) =>
            consumed[s] = AfterAddressingAt(s) - s + ImmediateBytesAt(s)

\* the immediate of an addressing+immediate instruction is read from the
\* bytes right after the addressing and displacement bytes
ModrmImmediatePlace(s) ==
    ImmediateBytesAt(s) > 0 =>
        output_list[s].instruction.immediate =
            ImmStr(<<"0x">> \o FormatHexUnsigned(FromBytesUnsigned(
                Slice(data, AfterAddressingAt(s), AfterAddressingAt(s) + ImmediateBytesAt(s))), 8))

\* C9: a decoded addressing-byte instruction consumes opcode width + 1 + S +
\* D + I bytes, and under the addressing+immediate tag its immediate is read
\* from the bytes right after the addressing and displacement bytes.
C9_ModrmSizeAndImmediate ==
    \A s \in Keys :
        DecodedModrmAt(s) =>
            /\ consumed[s] = AfterAddressingAt(s) - s + ImmediateBytesAt(s)
            /\ ModrmImmediatePlace(s)

\* the immediate is read from the right place under every one-byte opcode
ModrmImmediateOneByteOpcode ==
    \A s \in Keys : (DecodedModrmAt(s) /\ WidthAt(s) = 1) => ModrmImmediatePlace(s)

\* C10: A1 and A3 with their four bytes in the file decode to the register
\* eax, 5 consumed bytes and, as immediate, the plain value of the four
\* bytes (as an integer, or as its 0x + 8 hex digits text), whatever the
\* offset of the instruction.
C10_AccumulatorMoveLiteral ==
    \A s \in Keys :
        (ByteAt(s) \in {161, 163} /\ s + 5 <= Len(data)) =>
            /\ output_list[s].instruction.reg = "eax"
            /\ consumed[s] = 5
            /\ output_list[s].instruction.immediate \in
                   {ImmInt(FromBytesSigned(Slice(data, s + 1, s + 5))),
                    ImmStr(<<"0x">> \o FormatHexUnsigned(
                        FromBytesUnsigned(Slice(data, s + 1, s + 5)), 8))}

\* the offset arguments dispatch is compared under
OffsetArgs == 0 .. MaxLen + 1

\* the consumed size and the placeholder flag of dispatch on the suffix at k
\* are those under offset 0, whatever the offset argument
DispatchIgnoresOffset(k) ==
    \A offset \in OffsetArgs :
        /\ disassemble(SliceFrom(data, k), offset).size =
               disassemble(SliceFrom(data, k), 0).size
        /\ disassemble(SliceFrom(data, k), offset).instruction.is_db =
               disassemble(SliceFrom(data, k), 0).instruction.is_db

\* the keys of the finished sweep from k on, moved down by k, with their sizes
ShiftedSweep(k) ==
    [i \in {j - k : j \in {x \in Keys : x >= k}} |-> consumed[i + k]]

\* the sweep of the file and the sweeps of its suffixes
ShiftInvariant ==
    pc = "done" =>
        /\ linnear_sweep(data) = consumed
        /\ \A k \in 0 .. Len(data) - 1 : DispatchIgnoresOffset(k)
        /\ \A k \in Keys : linnear_sweep(SliceFrom(data, k)) = ShiftedSweep(k)

\* C11: instruction boundaries are shift-invariant.  The size and the
\* placeholder flag dispatch returns for a suffix are the same under every
\* offset argument; for every key k of the finished sweep of a file, the
\* sweep of the suffix from k has exactly the later keys moved down by k,
\* with the same consumed sizes; and every iteration leaves the cursor at
\* the offset it decoded at plus the size consumed there, also after a
\* call or jump whose destination is elsewhere.
C11_ShiftInvariantBoundaries ==
    /\ []ShiftInvariant
    /\ [][counter' # counter =>
            /\ DOMAIN consumed' = DOMAIN consumed \cup {counter}
            /\ counter' = counter + consumed'[counter]
            /\ consumed'[counter] =
                   disassemble(SliceFrom(data, counter), 0).size]_vars

\* a finished sweep with a jump decoded at a key above 0 whose destination
\* is not the offset the sweep went on at
C11_Witness ==
    /\ pc = "done"
    /\ \E k \in Keys :
        /\ k > 0
        /\ ByteAt(k) \in {232, 233, 235, 116, 117}
        /\ ~output_list[k].instruction.is_db
        /\ output_list[k].instruction.encoding = "D"
        /\ \E target \in DOMAIN labels :
            /\ output_list[k].instruction.immediate = ImmStr(DestLabel(target))
            /\ target # k + consumed[k]
            /\ disassemble(SliceFrom(data, k), 0).instruction.immediate.num # target

====
